---- MODULE Spec2Model ----
\* Model of the IWM-5-VWAP overnight-bias and confirmation logic.
\* Prices are integer cents (the code's float dollars times 100).
\* Ratios (confidences) are kept exact as records [num, den].
EXTENDS Integers, Sequences, FiniteSets, TLC

\* Python None for optional numeric fields (prices are positive).
NoneVal == -1

\* ---------------------------------------------------------------
\* OvernightBiasStrategy : 12h overnight bar handling
\* ---------------------------------------------------------------

\* Bars drawn for the overnight classifiers: well-formed OHLC in cents
\* (low <= close <= high). They contain the spec scenario bars
\* {240.80, 239.50} and {241.93, 240.19, 241.20}.
BarHighs == {24080, 24193}
BarLows == {23950, 24019, 23900}
BarCloses == {24050, 24120, 23920}
Bars == {b \in [h : BarHighs, l : BarLows, c : BarCloses] : b.l <= b.c /\ b.c <= b.h}
\* number of overnight bars a run processes (over both classifiers)
MaxBars == 4

NoBar == [h |-> 0, l |-> 0, c |-> 0]

Min1(r) == IF r.num >= r.den THEN [num |-> 1, den |-> 1] ELSE r
Zero == [num |-> 0, den |-> 1]

\* Mutant for C5: distance scaled by 100 instead of 10.
DetermineOvernightBias_mut(n, prev, bar) ==
  IF n < 2 THEN [bias |-> "none", conf |-> Zero, type |-> "first"]
  ELSE IF bar.h <= prev.h /\ bar.l >= prev.l
       THEN [bias |-> "none", conf |-> Zero, type |-> "1"]
  ELSE IF bar.c > prev.h
       THEN [bias |-> "calls",
             conf |-> Min1([num |-> 7 * prev.h + 1000 * (bar.c - prev.h), den |-> 10 * prev.h]),
             type |-> "2-up"]
  ELSE IF bar.c < prev.l
       THEN [bias |-> "puts",
             conf |-> Min1([num |-> 7 * prev.l + 1000 * (prev.l - bar.c), den |-> 10 * prev.l]),
             type |-> "2-down"]
  ELSE [bias |-> "none", conf |-> Zero, type |-> "1"]

\* OvernightBiasStrategy._determine_overnight_bias(bar) given the previous
\* stored bar prev (overnight_bars[-2]) and n = len(overnight_bars) after append
DetermineOvernightBias(n, prev, bar) ==
  IF n < 2 THEN [bias |-> "none", conf |-> Zero, type |-> "first"]
  ELSE IF bar.h <= prev.h /\ bar.l >= prev.l
       THEN [bias |-> "none", conf |-> Zero, type |-> "1"]
  ELSE IF bar.c > prev.h
       \* min(0.7 + (|c - ph| / ph) * 10, 1.0)
       THEN [bias |-> "calls",
             conf |-> Min1([num |-> 7 * prev.h + 100 * (bar.c - prev.h), den |-> 10 * prev.h]),
             type |-> "2-up"]
  ELSE IF bar.c < prev.l
       THEN [bias |-> "puts",
             conf |-> Min1([num |-> 7 * prev.l + 100 * (prev.l - bar.c), den |-> 10 * prev.l]),
             type |-> "2-down"]
  ELSE [bias |-> "none", conf |-> Zero, type |-> "1"]

VARIABLES
  obBars,        \* len(overnight_bars), capped by MaxBars
  obPrevBar,     \* overnight_bars[-1] (last stored bar) or NoBar
  obBias,        \* current_bias: "calls" | "puts" | "none"
  obConf,        \* bias_confidence
  obHigh,        \* overnight_high (NoneVal when None)
  obLow,         \* overnight_low
  obProcessed,   \* overnight_processed_today
  obLast         \* last call of update_overnight_bar: inputs and returned dict

obVars == <<obBars, obPrevBar, obBias, obConf, obHigh, obLow, obProcessed, obLast>>

InitOB ==
  /\ obBars = 0
  /\ obPrevBar = NoBar
  /\ obBias = "none"
  /\ obConf = Zero
  /\ obHigh = NoneVal
  /\ obLow = NoneVal
  /\ obProcessed = FALSE
  /\ obLast = [called |-> FALSE, status |-> "none", bar |-> NoBar, prev |-> NoBar,
               n |-> 0, bias |-> "none", conf |-> Zero, type |-> "none",
               high |-> NoneVal, low |-> NoneVal, cbias |-> "none"]

\* OvernightBiasStrategy.update_overnight_bar(bar) at a time inside (gate)
\* or outside the 03:00:00-03:00:30 ET window
update_overnight_bar(bar, gate) ==
       IF ~gate
       THEN /\ obLast' = [obLast EXCEPT !.called = TRUE, !.status = "pending",
                                        !.bias = obBias]
            /\ UNCHANGED <<obBars, obPrevBar, obBias, obConf, obHigh, obLow, obProcessed>>
       ELSE LET n == obBars + 1
                r == DetermineOvernightBias(n, obPrevBar, bar)
                setBias == r.bias /= "none"
            IN /\ obBars' = n
               /\ obPrevBar' = bar
               /\ obHigh' = bar.h
               /\ obLow' = bar.l
               /\ obBias' = IF setBias THEN r.bias ELSE obBias
               /\ obConf' = IF setBias THEN r.conf ELSE obConf
               /\ obProcessed' = IF setBias THEN TRUE ELSE obProcessed
               /\ obLast' = [called |-> TRUE, status |-> "complete", bar |-> bar,
                             prev |-> obPrevBar, n |-> n,
                             bias |-> IF setBias THEN r.bias ELSE obBias,
                             conf |-> IF setBias THEN r.conf ELSE obConf,
                             type |-> r.type, high |-> bar.h, low |-> bar.l,
                             cbias |-> r.bias]

\* OvernightBiasStrategy.reset_daily
reset_daily ==
  /\ obBias' = "none"
  /\ obConf' = Zero
  /\ obHigh' = NoneVal
  /\ obLow' = NoneVal
  /\ obProcessed' = FALSE
  /\ UNCHANGED <<obBars, obPrevBar, obLast>>


\* ---------------------------------------------------------------
\* OvernightBarAnalysis : 12h bar classification, 1-3-1 coil, triggers
\* ---------------------------------------------------------------


\* OvernightBarAnalysis._classify_bar_type(bar); n0 = len(overnight_bars)
\* before the bar is stored, prev = overnight_bars[-1]
ClassifyBarType(n0, prev, bar) ==
  IF n0 = 0 THEN "first"
  ELSE IF bar.h <= prev.h /\ bar.l >= prev.l THEN "1"
  ELSE IF bar.h > prev.h /\ bar.l < prev.l THEN "3"
  ELSE IF bar.c > prev.h THEN "2-up"
  ELSE IF bar.c < prev.l THEN "2-down"
  ELSE "1"

\* OvernightBarAnalysis._update_coil_pattern list update (keep last 5)
UpdateCoil(coil, t) ==
  LET c == Append(coil, t) IN IF Len(c) > 5 THEN Tail(c) ELSE c

\* OvernightBarAnalysis._analyze_coil_pattern, strength scaled by 2
\* (0 -> 0.0, 1 -> 0.5, 2 -> 1.0)
AnalyzeCoilPattern(coil) ==
  IF Len(coil) < 3 THEN 0
  ELSE LET r == SubSeq(coil, Len(coil) - 2, Len(coil))
           has(t) == \E i \in 1..3 : r[i] = t
       IN IF r = <<"1", "3", "1">> THEN 2
          ELSE IF has("1") /\ has("3") THEN 1
          ELSE 0

\* min(0.7 + coil_strength * 0.3, 1.0) with strength = s2 / 2
CoilConfidence(s2) == Min1([num |-> 14 + 3 * s2, den |-> 20])

\* OvernightBarAnalysis._determine_bias; n = len(overnight_bars) after
\* append, t = type of the stored bar, coil = pattern after update
DetermineBiasOA(n, t, coil) ==
  IF n < 2 THEN [bias |-> "none", conf |-> Zero]
  ELSE IF t = "2-up" THEN [bias |-> "calls", conf |-> CoilConfidence(AnalyzeCoilPattern(coil))]
  ELSE IF t = "2-down" THEN [bias |-> "puts", conf |-> CoilConfidence(AnalyzeCoilPattern(coil))]
  ELSE [bias |-> "none", conf |-> Zero]

\* Mutant for C4: the bar's high and low swapped.
UpdateTriggerLevels_mut(insH, insL, bar) ==
  IF insH /= NoneVal /\ insL /= NoneVal
  THEN [th |-> insH, tl |-> insL]
  ELSE [th |-> bar.l, tl |-> bar.h]

\* OvernightBarAnalysis._update_trigger_levels: inside-bar levels when
\* tracked, else the latest bar's high/low
UpdateTriggerLevels(insH, insL, bar) ==
  IF insH /= NoneVal /\ insL /= NoneVal
  THEN [th |-> insH, tl |-> insL]
  ELSE [th |-> bar.h, tl |-> bar.l]

VARIABLES
  oaBars,      \* len(overnight_bars)
  oaPrevBar,   \* overnight_bars[-1]
  oaCoil,      \* coil_pattern
  oaInsideH,   \* inside_bar_high (NoneVal when None)
  oaInsideL,   \* inside_bar_low
  oaTrigH,     \* trigger_high
  oaTrigL,     \* trigger_low
  oaLast       \* last call: inputs and returned dict

oaVars == <<oaBars, oaPrevBar, oaCoil, oaInsideH, oaInsideL, oaTrigH, oaTrigL, oaLast>>

InitOA ==
  /\ oaBars = 0
  /\ oaPrevBar = NoBar
  /\ oaCoil = <<>>
  /\ oaInsideH = NoneVal
  /\ oaInsideL = NoneVal
  /\ oaTrigH = NoneVal
  /\ oaTrigL = NoneVal
  /\ oaLast = [called |-> FALSE, status |-> "none", bar |-> NoBar, prev |-> NoBar,
               bias |-> "none", conf |-> Zero, type |-> "none",
               trigH |-> NoneVal, trigL |-> NoneVal]

\* OvernightBarAnalysis.update_overnight_bar(bar), gate = inside 03:00:00-03:00:30
oa_update_overnight_bar(bar, gate) ==
       IF ~gate
       THEN /\ oaLast' = [oaLast EXCEPT !.called = TRUE, !.status = "pending",
                                        !.bias = "none"]
            /\ UNCHANGED <<oaBars, oaPrevBar, oaCoil, oaInsideH, oaInsideL, oaTrigH, oaTrigL>>
       ELSE LET t == ClassifyBarType(oaBars, oaPrevBar, bar)
                n == oaBars + 1
                coil == UpdateCoil(oaCoil, t)
                insH == IF t = "1" THEN bar.h ELSE oaInsideH
                insL == IF t = "1" THEN bar.l ELSE oaInsideL
                r == DetermineBiasOA(n, t, coil)
                trig == UpdateTriggerLevels(insH, insL, bar)
                tH == trig.th
                tL == trig.tl
            IN /\ oaBars' = n
               /\ oaPrevBar' = bar
               /\ oaCoil' = coil
               /\ oaInsideH' = insH
               /\ oaInsideL' = insL
               /\ oaTrigH' = tH
               /\ oaTrigL' = tL
               /\ oaLast' = [called |-> TRUE, status |-> "complete", bar |-> bar,
                             prev |-> oaPrevBar, bias |-> r.bias, conf |-> r.conf,
                             type |-> t, trigH |-> tH, trigL |-> tL]


\* The two overnight classifiers are separate objects, each fed its own
\* sequence of 12h bars by its own caller.
overnightVars == <<obVars, oaVars>>

\* an overnight bar delivered to OvernightBiasStrategy
OvernightBar ==
  /\ obBars + oaBars < MaxBars
  /\ \E bar \in Bars, gate \in BOOLEAN : update_overnight_bar(bar, gate)
  /\ UNCHANGED oaVars

\* an overnight bar delivered to OvernightBarAnalysis
OvernightBarOA ==
  /\ obBars + oaBars < MaxBars
  /\ \E bar \in Bars, gate \in BOOLEAN : oa_update_overnight_bar(bar, gate)
  /\ UNCHANGED obVars

NextOvernight == OvernightBar \/ OvernightBarOA \/ (reset_daily /\ UNCHANGED oaVars)

\* ---------------------------------------------------------------
\* StratBiasEngine : daily bias from the 12h extended-hours candle
\* ---------------------------------------------------------------

\* Candles the Polygon fetch can return (cents): one of each Strat class,
\* and one whose close ties low * 1.05 exactly.
SEBars == {
  [o |-> 24050, h |-> 24193, l |-> 24019, c |-> 24120],
  [o |-> 10000, h |-> 12000, l |-> 8000, c |-> 10000],
  [o |-> 10000, h |-> 12000, l |-> 9000, c |-> 9100],
  [o |-> 10000, h |-> 10100, l |-> 9000, c |-> 9500],
  [o |-> 1000, h |-> 1000, l |-> 900, c |-> 945]}
\* days the engine runs
MaxDays == 3
\* host time zones, in hours ahead of ET: an ET host and a Tokyo host
HostOffsets == {0, 13}

\* Python float comparison of a price against a price times a threshold,
\* both scaled to exact integers x and y: at an exact tie the float product
\* may round either side of the exact value, so both outcomes are possible.
FloatGt(x, y) == IF x > y THEN {TRUE} ELSE IF x = y THEN {TRUE, FALSE} ELSE {FALSE}
FloatLt(x, y) == IF x < y THEN {TRUE} ELSE IF x = y THEN {TRUE, FALSE} ELSE {FALSE}
\* int(x / y) of a float quotient whose exact value is n / d (n >= 0, d > 0):
\* an exact integer quotient may come out just below it and truncate to one less
FloatInt(n, d) == IF n > 0 /\ n % d = 0 THEN {n \div d - 1, n \div d} ELSE {n \div d}

\* StratBiasEngine._analyze_strat_pattern (thresholds 0.95, 1.05, 1.02, 0.98):
\* the set of classes the float comparisons can produce
AnalyzeStratPattern(d) ==
  { IF up THEN "2-up"
    ELSE IF dn THEN "2-down"
    ELSE IF wh /\ wl THEN "3"
    ELSE "1" :
      up \in FloatGt(100 * d.c, 95 * d.h),
      dn \in FloatLt(100 * d.c, 105 * d.l),
      wh \in FloatGt(100 * d.h, 102 * d.o),
      wl \in FloatLt(100 * d.l, 98 * d.o) }

\* StratBiasEngine._classify_bias -> [bias, th, tl]
ClassifyBias(sc, d) ==
  IF sc = "2-up" THEN [bias |-> "Long", th |-> d.h, tl |-> d.l]
  ELSE IF sc = "2-down" THEN [bias |-> "Short", th |-> d.h, tl |-> d.l]
  ELSE IF sc = "3" THEN [bias |-> "Long", th |-> d.h, tl |-> d.l]
  ELSE [bias |-> "None", th |-> d.h, tl |-> d.l]

\* Python truthiness of an optional price (None and 0 are falsy)
Truthy(x) == x /= NoneVal /\ x /= 0

\* StratBiasEngine._get_bias_dict(bias, th, tl) against the engine's
\* stored fields cb (current_bias, "null" for None), cth, ctl
GetBiasDict(b, th, tl, cb, cth, ctl) ==
  [bias |-> IF b /= "null" THEN b ELSE IF cb /= "null" THEN cb ELSE "None",
   th |-> IF Truthy(th) THEN th ELSE IF Truthy(cth) THEN cth ELSE 0,
   tl |-> IF Truthy(tl) THEN tl ELSE IF Truthy(ctl) THEN ctl ELSE 0]

VARIABLES
  seBias,    \* current_bias ("null" for None)
  seTH,      \* trigger_high
  seTL,      \* trigger_low
  seStamp,   \* bias_timestamp as an ET hour count since day 1 00:00 (NoneVal for None)
  seDay,     \* ET date
  seHour,    \* ET hour: 3 (before 15:00) or 15
  seOff,     \* hours the host's local time zone is ahead of ET
  seLast     \* last get_daily_bias call: fetch outcome and returned dict

seVars == <<seBias, seTH, seTL, seStamp, seDay, seHour, seOff, seLast>>

InitSE ==
  /\ seBias = "null"
  /\ seTH = NoneVal
  /\ seTL = NoneVal
  /\ seStamp = NoneVal
  /\ seDay = 1
  /\ seHour = 3
  /\ seOff \in HostOffsets
  /\ seLast = [called |-> FALSE, path |-> "none", cls |-> "none",
               bias |-> "None", th |-> 0, tl |-> 0]

\* date of datetime.fromtimestamp(stamp): the host's local date
LocalDate(stamp) == (stamp + seOff) \div 24 + 1

\* StratBiasEngine._is_bias_valid: the stamp's host-local date against the
\* ET date of get_et_time()
IsBiasValid ==
  /\ seBias /= "null" /\ seStamp /= NoneVal
  /\ LocalDate(seStamp) = seDay /\ seHour < 15

\* StratBiasEngine.get_daily_bias; ok = FALSE when _get_overnight_data
\* yields None (no results, HTTP error or exception) or the
\* determination raises
get_daily_bias ==
  \E ok \in BOOLEAN, d \in SEBars :
    IF IsBiasValid
    THEN /\ seLast' = [called |-> TRUE, path |-> "cached", cls |-> "none"]
                        @@ GetBiasDict("null", NoneVal, NoneVal, seBias, seTH, seTL)
         /\ UNCHANGED <<seBias, seTH, seTL, seStamp, seDay, seHour, seOff>>
    ELSE IF ~ok
    THEN /\ seLast' = [called |-> TRUE, path |-> "failed", cls |-> "none"]
                        @@ GetBiasDict("None", 0, 0, seBias, seTH, seTL)
         /\ UNCHANGED <<seBias, seTH, seTL, seStamp, seDay, seHour, seOff>>
    ELSE \E sc \in AnalyzeStratPattern(d) :
         LET r == ClassifyBias(sc, d)
         IN /\ seBias' = r.bias
            /\ seTH' = r.th
            /\ seTL' = r.tl
            /\ seStamp' = (seDay - 1) * 24 + seHour
            /\ seLast' = [called |-> TRUE, path |-> "determined", cls |-> sc]
                           @@ GetBiasDict(r.bias, r.th, r.tl, r.bias, r.th, r.tl)
            /\ UNCHANGED <<seDay, seHour, seOff>>

\* wall clock of the engine: 03:00 -> 15:00 -> next day 03:00
se_clock ==
  /\ IF seHour = 3
     THEN seHour' = 15 /\ UNCHANGED seDay
     ELSE seDay < MaxDays /\ seDay' = seDay + 1 /\ seHour' = 3
  /\ UNCHANGED <<seBias, seTH, seTL, seStamp, seOff, seLast>>


\* ---------------------------------------------------------------
\* FiveMinuteConfirmation : break / confirmation / retest machine
\* ---------------------------------------------------------------

\* tick prices (cents): below both triggers, within 0.1% of 241.93, above
FcPrices == {23900, 24000, 24195, 24250}
\* (trigger_high, trigger_low) pairs handed to update
FcTriggers == {[th |-> 24193, tl |-> 24019], [th |-> 24300, tl |-> 24019]}
\* session VWAP and EMA20 of the orchestrator at the tick (not read by
\* FiveMinuteConfirmation; recorded to state the protocol)
FcLevels == {24100}
\* tick time: outside the entry windows, inside them at a 5-minute close
\* (minute % 5 = 0, second < 30), or inside them otherwise
TickKinds == {"outside", "close", "mid"}
\* ticks per run
MaxFcTicks == 5

\* FiveMinuteConfirmation.max_retests
max_retests == 2

\* FiveMinuteConfirmation._check_trigger_break(close, bias)
CheckTriggerBreak(close, bias, th, tl) ==
  IF bias = "calls" /\ th /= NoneVal /\ close > th THEN [broken |-> TRUE, level |-> th]
  ELSE IF bias = "puts" /\ tl /= NoneVal /\ close < tl THEN [broken |-> TRUE, level |-> tl]
  ELSE [broken |-> FALSE, level |-> NoneVal]

\* FiveMinuteConfirmation._check_confirmation: the candle dict has no
\* 'vwap' key, so current_candle.get('vwap', 0) is 0
CheckConfirmation(close, bias, trig) ==
  LET vwap == 0 IN
  \/ bias = "calls" /\ close > trig /\ close > vwap
  \/ bias = "puts" /\ close < trig /\ close < vwap

\* _check_retest_opportunity: self.retest_count >= self.max_retests
RetestCapReached(r) == r >= max_retests

\* retest band: trigger * 0.999 <= price <= trigger * 1.001 in floats,
\* the set of outcomes (an exact tie may go either way, as for
\* FloatGt / FloatLt, for <= and >= alike)
InRetestBand(p, trig) ==
  { le /\ ge : le \in FloatLt(1000 * p, 1001 * trig), ge \in FloatGt(1000 * p, 999 * trig) }

VARIABLES
  fcTH, fcTL,     \* trigger_high, trigger_low
  fcCandle,       \* current_candle close (NoneVal when None)
  fcPending,      \* confirmation_pending
  fcConfBias,     \* confirmation_bias ("null" for None)
  fcConfTrig,     \* confirmation_trigger
  fcRetest,       \* retest_count
  fcTicks,        \* ticks handled (bound)
  fcMidSince,     \* an in-window non-close tick came since the last close (history)
  fcEpConfirms,   \* confirmations in the current pending episode (history)
  fcLast          \* last update: inputs, prior machine state, returned status

fcVars == <<fcTH, fcTL, fcCandle, fcPending, fcConfBias, fcConfTrig, fcRetest,
            fcTicks, fcMidSince, fcEpConfirms, fcLast>>

InitFC ==
  /\ fcTH = NoneVal /\ fcTL = NoneVal
  /\ fcCandle = NoneVal
  /\ fcPending = FALSE
  /\ fcConfBias = "null"
  /\ fcConfTrig = NoneVal
  /\ fcRetest = 0
  /\ fcTicks = 0
  /\ fcMidSince = FALSE
  /\ fcEpConfirms = 0
  /\ fcLast = [status |-> "none", kind |-> "none", price |-> 0, bias |-> "null",
               vwap |-> 0, ema |-> 0, prevPending |-> FALSE, prevConfBias |-> "null",
               prevConfTrig |-> NoneVal, prevRetest |-> 0, midBefore |-> FALSE, entry |-> FALSE]

\* FiveMinuteConfirmation.update(tick, bias, trigger_levels)
fc_update ==
  /\ fcTicks < MaxFcTicks
  /\ \E p \in FcPrices, bias \in {"calls", "puts"}, tr \in FcTriggers,
        kind \in TickKinds, lv \in FcLevels :
     \E inBand \in InRetestBand(p, fcConfTrig) :
     LET rec(st, entry) == [status |-> st, kind |-> kind, price |-> p, bias |-> bias,
                            vwap |-> lv, ema |-> lv, prevPending |-> fcPending,
                            prevConfBias |-> fcConfBias, prevConfTrig |-> fcConfTrig, prevRetest |-> fcRetest,
                            midBefore |-> fcMidSince, entry |-> entry]
         brk == CheckTriggerBreak(p, bias, tr.th, tr.tl)
     IN
     /\ fcTicks' = fcTicks + 1
     /\ fcTH' = tr.th /\ fcTL' = tr.tl
     /\ CASE kind = "outside" ->
               /\ fcLast' = rec("outside_window", FALSE)
               /\ UNCHANGED <<fcCandle, fcPending, fcConfBias, fcConfTrig, fcRetest,
                              fcMidSince, fcEpConfirms>>
          [] kind = "close" /\ brk.broken ->
               /\ fcPending' = TRUE
               /\ fcConfBias' = bias
               /\ fcConfTrig' = brk.level
               /\ fcCandle' = p
               /\ fcEpConfirms' = IF fcPending THEN fcEpConfirms ELSE 0
               /\ fcMidSince' = FALSE
               /\ fcLast' = rec("trigger_break", FALSE)
               /\ UNCHANGED fcRetest
          [] kind = "close" /\ ~brk.broken /\ fcPending /\ fcConfBias = bias
               /\ CheckConfirmation(p, bias, fcConfTrig) ->
               /\ fcPending' = FALSE
               /\ fcConfBias' = "null"
               /\ fcConfTrig' = NoneVal
               /\ fcRetest' = 0
               /\ fcCandle' = p
               /\ fcEpConfirms' = fcEpConfirms + 1
               /\ fcMidSince' = FALSE
               /\ fcLast' = rec("confirmed", TRUE)
          [] kind = "close" ->
               \* no break, no confirmation: the candle is reset
               /\ fcCandle' = NoneVal
               /\ fcMidSince' = FALSE
               /\ fcLast' = rec("no_trigger", FALSE)
               /\ UNCHANGED <<fcPending, fcConfBias, fcConfTrig, fcRetest, fcEpConfirms>>
          [] kind = "mid" /\ fcPending /\ RetestCapReached(fcRetest) ->
               /\ fcPending' = FALSE
               /\ fcConfBias' = "null"
               /\ fcConfTrig' = NoneVal
               /\ fcRetest' = 0
               /\ fcCandle' = p
               /\ fcMidSince' = TRUE
               /\ fcLast' = rec("max_retests", FALSE)
               /\ UNCHANGED fcEpConfirms
          [] kind = "mid" /\ fcPending /\ fcConfTrig /= NoneVal
               /\ bias \in {"calls", "puts"} /\ inBand ->
               /\ fcRetest' = fcRetest + 1
               /\ fcCandle' = p
               /\ fcMidSince' = TRUE
               /\ fcLast' = rec("retest_opportunity", FALSE)
               /\ UNCHANGED <<fcPending, fcConfBias, fcConfTrig, fcEpConfirms>>
          [] OTHER ->
               /\ fcCandle' = p
               /\ fcMidSince' = TRUE
               /\ fcLast' = rec(IF fcPending THEN "waiting_retest" ELSE "waiting", FALSE)
               /\ UNCHANGED <<fcPending, fcConfBias, fcConfTrig, fcRetest, fcEpConfirms>>

\* FiveMinuteConfirmation.reset_confirmation()
fc_reset_confirmation ==
  /\ fcPending' = FALSE
  /\ fcConfBias' = "null"
  /\ fcConfTrig' = NoneVal
  /\ fcRetest' = 0
  /\ fcLast' = [fcLast EXCEPT !.status = "reset", !.kind = "none", !.entry = FALSE,
                               !.prevPending = fcPending, !.prevConfBias = fcConfBias,
                               !.prevConfTrig = fcConfTrig, !.prevRetest = fcRetest]
  /\ UNCHANGED <<fcTH, fcTL, fcCandle, fcTicks, fcMidSince, fcEpConfirms>>

\* ---------------------------------------------------------------
\* OvernightBiasStrategy : 5-minute entry path (update_five_minute_data)
\* ---------------------------------------------------------------

\* tick prices (cents) and session VWAP values handed in
ObfPrices == {24000, 24250}
ObfVwaps == {24100}
\* ticks per run
MaxObfTicks == 4
\* EMA20 is kept as EmaBase + num / den (exact; the offset keeps the
\* integers small). alpha = 2 / (20 + 1).
EmaBase == 24000

\* OvernightBiasStrategy._update_ema20 (n = len(ema20_data) before append, capped at 2)
UpdateEma20(n, ema, p) ==
  IF n = 0 THEN [num |-> p - EmaBase, den |-> 1]
  ELSE [num |-> 2 * (p - EmaBase) * ema.den + 19 * ema.num, den |-> 21 * ema.den]

\* price > current_ema20 / price < current_ema20
AboveEma(p, ema) == (p - EmaBase) * ema.den > ema.num
BelowEma(p, ema) == (p - EmaBase) * ema.den < ema.num
\* current_ema20 == 0 (prices are positive, so num >= -EmaBase * den)
EmaIsZero(ema) == ema.num < 0 /\ ema.num + EmaBase * ema.den = 0

\* OvernightBiasStrategy._check_vwap_alignment
CheckVwapAlignment(bias, p, vwap) ==
  /\ vwap /= 0
  /\ \/ bias = "calls" /\ p > vwap
     \/ bias = "puts" /\ p < vwap

\* OvernightBiasStrategy._check_ema20_alignment
CheckEma20Alignment(bias, p, ema) ==
  /\ ~EmaIsZero(ema)
  /\ \/ bias = "calls" /\ AboveEma(p, ema)
     \/ bias = "puts" /\ BelowEma(p, ema)

\* OvernightBiasStrategy._check_overnight_level_break
CheckOvernightLevelBreak(bias, p, high, low) ==
  \/ bias = "calls" /\ high /= NoneVal /\ p > high
  \/ bias = "puts" /\ low /= NoneVal /\ p < low

\* OvernightBiasStrategy._process_five_minute_close status
ProcessFiveMinuteClose(candle, bias, p, vwap, ema, high, low) ==
  IF candle = NoneVal \/ bias = "none" THEN "no_signal"
  ELSE IF ~(CheckVwapAlignment(bias, p, vwap) /\ CheckEma20Alignment(bias, p, ema))
       THEN "not_aligned"
  ELSE IF CheckOvernightLevelBreak(bias, p, high, low) THEN "entry_signal"
  ELSE "no_break"

VARIABLES
  obfCandle,      \* current_five_min_candle close (NoneVal when None)
  obfEma,         \* current_ema20 as [num, den] over EmaBase
  obfEmaN,        \* min(len(ema20_data), 2)
  obfTicks,       \* ticks handled (bound)
  obfPrevClose,   \* previous tick fell in the same 5-minute close window (history)
  obfWinEntries,  \* entry signals emitted in the current close window (history)
  obfLast         \* last returned status

obfVars == <<obfCandle, obfEma, obfEmaN, obfTicks, obfPrevClose, obfWinEntries, obfLast>>

InitOBF ==
  /\ obfCandle = NoneVal
  /\ obfEma = [num |-> -EmaBase, den |-> 1]
  /\ obfEmaN = 0
  /\ obfTicks = 0
  /\ obfPrevClose = FALSE
  /\ obfWinEntries = 0
  /\ obfLast = "none"

\* the EMA kept in lowest terms when it equals the price p exactly (the
\* float recurrence of a constant price stays at that price)
NormEma(e, p) == IF e.num = (p - EmaBase) * e.den THEN [num |-> p - EmaBase, den |-> 1] ELSE e

\* OvernightBiasStrategy.update_five_minute_data at a tick of price p, in
\* an instant of the given kind, with the session VWAP vwap, for a strategy
\* whose bias and overnight levels are bias, high, low
FiveMinuteUpdate(p, kind, vwap, bias, high, low) ==
  LET ema == UpdateEma20(obfEmaN, obfEma, p)
      st == IF kind = "outside" THEN "outside_window"
            ELSE IF kind = "close"
                 THEN ProcessFiveMinuteClose(p, bias, p, vwap, ema, high, low)
            ELSE "waiting"
      e == IF st = "entry_signal" THEN 1 ELSE 0
  IN /\ obfCandle' = p
     /\ obfEma' = NormEma(ema, p)
     /\ obfEmaN' = IF obfEmaN < 2 THEN obfEmaN + 1 ELSE 2
     /\ obfLast' = st
     /\ obfPrevClose' = (kind = "close")
     /\ obfWinEntries' = IF kind = "close"
                         THEN (IF obfPrevClose THEN obfWinEntries + e ELSE e)
                         ELSE 0

\* OvernightBiasStrategy.update_five_minute_data(tick, vwap_data)
update_five_minute_data ==
  /\ obfTicks < MaxObfTicks
  /\ obfTicks' = obfTicks + 1
  /\ \E p \in ObfPrices, kind \in TickKinds, vwap \in ObfVwaps :
       FiveMinuteUpdate(p, kind, vwap, obBias, obHigh, obLow)

\* ---------------------------------------------------------------
\* MultiStrategyOrchestrator : overnight analysis scheduling
\* ---------------------------------------------------------------

\* Wall-clock instants (seconds after ET midnight) at which the process
\* starts or its loop runs: 00:00:00, 02:59:55, 03:00:10, 03:00:20 (two
\* iterations inside the 03:00:00-03:00:30 window), 03:01:00, 09:00:00,
\* 09:31:00, 10:00:00, 12:00:00, 16:30:00.
OrTimes == <<0, 10795, 10810, 10820, 10860, 32400, 34260, 36000, 43200, 59400>>
\* trading days the orchestrator runs
MaxOrDays == 5

\* hardcoded IWM overnight bar of _process_overnight_analysis_for_symbol
IWMBar == [h |-> 24193, l |-> 24019, c |-> 24120]

Hour(t) == t \div 3600
Minute(t) == (t % 3600) \div 60
Second(t) == t % 60

\* the 03:00:00-03:00:30 gate (_is_overnight_bar_complete, is_three_am)
IsThreeAM(t) == Hour(t) = 3 /\ Minute(t) = 0 /\ Second(t) < 30

\* utils.is_market_hours: time(9, 30) <= now.time() <= time(16, 0), the
\* results it can give during the whole second t (16:00:00 is in market
\* hours only at microsecond 0)
IsMarketHours(t) == IF t = 57600 THEN {TRUE, FALSE} ELSE {34200 <= t /\ t < 57600}

\* OvernightBiasStrategy._is_in_entry_window: 09:45-11:00 or 13:30-14:15
\* compared as HH:MM strings (whole minutes, both ends included)
InObEntryWindow(t) ==
  LET m == Hour(t) * 60 + Minute(t)
  IN (585 <= m /\ m <= 660) \/ (810 <= m /\ m <= 855)

\* kind of the instant for update_five_minute_data: outside the entry
\* window, a 5-minute close (_is_five_minute_close) or mid-candle
ObKind(t) ==
  IF ~InObEntryWindow(t) THEN "outside"
  ELSE IF Minute(t) % 5 = 0 /\ Second(t) < 30 THEN "close"
  ELSE "mid"

\* _get_current_market_data_for_symbol('IWM'): price 245.50
OrTickPrice == 24550
\* session_vwap.current_vwap as the stock stream leaves it (0 before any data)
OrVwaps == {0, 24100}

\* MultiStrategyOrchestrator._process_strategies for IWM:
\* _process_overnight_bias_strategy_for_symbol hands the simulated tick and
\* the session VWAP status to the strategy's update_five_minute_data (an
\* entry_signal would go to _execute_overnight_bias_entry_for_symbol).
ProcessOvernightBiasStrategy(t) ==
  /\ \E vwap \in OrVwaps :
       FiveMinuteUpdate(OrTickPrice, ObKind(t), vwap, obBias', obHigh', obLow')
  /\ UNCHANGED obfTicks

\* MultiStrategyOrchestrator._should_analyze_overnight
ShouldAnalyzeOvernight(t, processed) ==
  IsThreeAM(t) \/ (Hour(t) >= 3 /\ ~processed)

VARIABLES
  orPhase,       \* "start" before start_strategy, "loop" inside _run_strategy_loop
  orIdx,         \* index of the current instant in OrTimes
  orDay,         \* trading day number
  orFlag,        \* overnight_processed_today
  orFlagDay,     \* day on which orFlag was last set (history)
  orBarDay,      \* day on which the strategy last stored an overnight bar (history)
  orDayBars,     \* overnight bars the strategy processed today (history)
  orFull,        \* the process was running before 03:00 today (history)
  orPrevDayBars, \* orDayBars of the previous day (history)
  orPrevFull     \* orFull of the previous day (history)

orVars == <<orPhase, orIdx, orDay, orFlag, orFlagDay, orBarDay, orDayBars,
            orFull, orPrevDayBars, orPrevFull>>

\* MultiStrategyOrchestrator.__init__ (day 1; the instant is fixed when
\* start_strategy runs)
InitOrch ==
  /\ orPhase = "start"
  /\ orIdx = 1
  /\ orDay = 1
  /\ orFlag = FALSE
  /\ orFlagDay = NoneVal
  /\ orBarDay = NoneVal
  /\ orDayBars = 0
  /\ orFull = FALSE
  /\ orPrevDayBars = NoneVal
  /\ orPrevFull = FALSE

\* _process_overnight_analysis at instant t (one symbol, IWM): the
\* strategy's update_overnight_bar, then overnight_processed_today = True.
\* Returns the number of bars the strategy stored.
ProcessOvernightAnalysis(t) ==
  /\ update_overnight_bar(IWMBar, IsThreeAM(t))
  /\ orFlag' = TRUE
  /\ orFlagDay' = orDay
  /\ orBarDay' = IF IsThreeAM(t) THEN orDay ELSE orBarDay

\* start_strategy at any instant of day 1: catch-up analysis, then the loop
start_strategy ==
  /\ orPhase = "start"
  /\ orPhase' = "loop"
  /\ \E i \in 1..Len(OrTimes) :
       LET t == OrTimes[i] IN
       /\ orIdx' = i
       /\ orFull' = (Hour(t) < 3)
       /\ IF ShouldAnalyzeOvernight(t, orFlag)
          THEN /\ ProcessOvernightAnalysis(t)
               /\ orDayBars' = orDayBars + (IF IsThreeAM(t) THEN 1 ELSE 0)
          ELSE UNCHANGED <<obVars, orFlag, orFlagDay, orBarDay, orDayBars>>
  /\ UNCHANGED <<orDay, orPrevDayBars, orPrevFull, obfVars>>

\* one iteration of _run_strategy_loop at the current instant (market
\* closed: skip; else analysis when _should_analyze_overnight, then
\* _process_strategies), after which
\* the clock moves to the next instant (next day after 16:30)
run_strategy_loop ==
  /\ orPhase = "loop"
  /\ (orIdx < Len(OrTimes) \/ orDay < MaxOrDays)
  /\ \E mh \in IsMarketHours(OrTimes[orIdx]) :
     LET t == OrTimes[orIdx]
         act == mh /\ ShouldAnalyzeOvernight(t, orFlag)
         bars == orDayBars + (IF act /\ IsThreeAM(t) THEN 1 ELSE 0)
     IN /\ IF act
           THEN ProcessOvernightAnalysis(t)
           ELSE UNCHANGED <<obVars, orFlag, orFlagDay, orBarDay>>
        /\ IF mh
           THEN ProcessOvernightBiasStrategy(t)
           ELSE UNCHANGED obfVars
        /\ IF orIdx < Len(OrTimes)
           THEN /\ orIdx' = orIdx + 1
                /\ orDayBars' = bars
                /\ UNCHANGED <<orDay, orFull, orPrevDayBars, orPrevFull>>
           ELSE /\ orIdx' = 1
                /\ orDay' = orDay + 1
                /\ orDayBars' = 0
                /\ orFull' = TRUE
                /\ orPrevDayBars' = bars
                /\ orPrevFull' = orFull
  /\ UNCHANGED orPhase

\* ---------------------------------------------------------------
\* Position sizing : OvernightBiasStrategy.calculate_position_size and
\* PositionSizing (sizing, positions, P&L, scaling)
\* ---------------------------------------------------------------

\* OvernightBiasStrategy.daily_pnl: 0.0 in __init__, only reset_daily
\* assigns it (to 0.0 again), so it is always 0 (dollars)
obs_daily_pnl == 0
\* OvernightBiasStrategy.max_daily_loss (dollars)
obs_max_daily_loss == -700

\* OvernightBiasStrategy.calculate_position_size(option_price, balance):
\* price in cents, balance in dollars. position_sizes['initial'] = 0.33,
\* risk_per_trade = min(bal * 0.03, bal * 0.015) = bal * 0.015.
ObsCalcPositionSize(price, bal) ==
  IF obs_daily_pnl <= obs_max_daily_loss
  THEN {[status |-> "rejected", num |-> 0]}
  ELSE LET avail == bal + obs_daily_pnl IN
       \* int(avail * 0.33 / (price / 100)) and
       \* int(min(bal * 0.03, bal * 0.015) / (price / 100)), in floats
       { IF num < 1 THEN [status |-> "rejected", num |-> num]
         ELSE [status |-> "approved", num |-> IF num <= byRisk THEN num ELSE byRisk] :
         num \in FloatInt(avail * 33, price), byRisk \in FloatInt(bal * 3, 2 * price) }

\* PositionSizing(account_size = 7000.0). Cash is kept in thirds of a
\* cent so that account_size / 3 is exact.
ps_account_size == 7000
\* first_entry_size = add_on_size = account_size / 3 (thirds of a cent)
ps_entry_size3 == ps_account_size * 100
\* max_daily_loss = account_size * 0.10 (cents)
ps_max_daily_loss == ps_account_size * 10
ps_max_positions == 2
\* scale_1_target = 0.35, scale_2_target = 0.85 (percent)
ps_scale_1_target == 35
ps_scale_2_target == 85

\* option prices (cents) offered to the sizers, the option prices seen
\* while monitoring, balances (dollars) for the strategy's sizer
PsPrices == {250, 240000}
ObsPrices == {250, 15000}
ObsBalances == {7000}
PsCurPrices == {150, 325, 338, 463}
\* sizing / monitoring / closing operations per run
MaxPsOps == 5

\* PositionSizing._can_enter_position; cool = the cooldown (300 s since
\* the last position's entry_time) has elapsed
PsCanEnter(pos, pnl, cool) ==
  /\ Len(pos) < ps_max_positions
  /\ (Len(pos) > 0 => cool)
  /\ ~(pnl <= -ps_max_daily_loss)

\* PositionSizing.calculate_position_size (price in cents)
PsCalcPositionSize(pos, cash3, pnl, price, cool) ==
  IF ~PsCanEnter(pos, pnl, cool) THEN [status |-> "blocked", num |-> 0, size |-> 0]
  ELSE LET num == ps_entry_size3 \div (3 * price)
           actual == num * price
       IN IF 3 * actual > cash3 THEN [status |-> "insufficient_cash", num |-> 0, size |-> 0]
          ELSE [status |-> "approved", num |-> num, size |-> actual]

\* PositionSizing._get_position: index of the first position with this id
PsFind(pos, id) ==
  IF \E i \in 1..Len(pos) : pos[i].id = id
  THEN CHOOSE i \in 1..Len(pos) : pos[i].id = id /\ \A j \in 1..(i - 1) : pos[j].id /= id
  ELSE 0

\* PositionSizing._check_scaling_opportunities: the lists of names (in order)
\* the float comparisons pnl_percent >= 0.35 / 0.85 can recommend
PsScaleRecs(p, cur) ==
  { (IF g1 /\ "scale_1" \notin p.scales THEN <<"scale_1">> ELSE <<>>)
    \o (IF g2 /\ "scale_2" \notin p.scales THEN <<"scale_2">> ELSE <<>>) :
    g1 \in FloatGt(100 * (cur - p.entry), ps_scale_1_target * p.entry),
    g2 \in FloatGt(100 * (cur - p.entry), ps_scale_2_target * p.entry) }

\* execute_scale's update of a position record (cur = current_price);
\* returns the updated record and the cash it frees (thirds of a cent)
PsExecuteScale(p, s) ==
  LET sold == IF s = "scale_1" THEN (p.num * 5) \div 10 ELSE (p.num * 3) \div 10
  IN [p |-> [p EXCEPT !.scales = @ \cup {s}, !.num = @ - sold,
                      !.n1 = @ + (IF s = "scale_1" THEN 1 ELSE 0),
                      !.n2 = @ + (IF s = "scale_2" THEN 1 ELSE 0)],
      cash3 |-> 3 * sold * p.cur]

VARIABLES
  psPos,      \* PositionSizing.current_positions (records, history fields n1/n2)
  psCash3,    \* available_cash (thirds of a cent)
  psPnl,      \* daily_pnl (cents)
  psOps,      \* operations handled (bound)
  szLast,     \* last sizing request: sizer, daily P&L before it, result
  psLast      \* last monitoring / closing operation and its result

psVars == <<psPos, psCash3, psPnl, psOps, szLast, psLast>>

InitPS ==
  /\ psPos = <<>>
  \* available_cash = account_size - account_size / 3
  /\ psCash3 = 3 * ps_account_size * 100 - ps_entry_size3
  /\ psPnl = 0
  /\ psOps = 0
  /\ szLast = [who |-> "none", prevPnl |-> 0, price |-> 0, status |-> "none", num |-> 0,
               added |-> FALSE]
  /\ psLast = [op |-> "none", id |-> 0, cur |-> 0, status |-> "none", recs |-> <<>>,
               prev |-> [found |-> FALSE, scales |-> {}, entry |-> 0], pnl |-> 0]

\* PositionSizing.calculate_position_size, then add_position with the
\* approved sizing's position_data (bias, option_price, num_contracts,
\* position_size, trigger_level): the class's entry protocol
ps_entry ==
  \E price \in PsPrices, cool \in BOOLEAN :
    LET r == PsCalcPositionSize(psPos, psCash3, psPnl, price, cool)
        ok == r.status = "approved" /\ PsCanEnter(psPos, psPnl, cool)
    IN /\ psPos' = IF ok
                   THEN Append(psPos, [id |-> Len(psPos) + 1, entry |-> price, num |-> r.num,
                                       size |-> r.size, cur |-> NoneVal, pnl |-> NoneVal,
                                       scales |-> {}, n1 |-> 0, n2 |-> 0])
                   ELSE psPos
       /\ psCash3' = IF ok THEN psCash3 - 3 * r.size ELSE psCash3
       /\ szLast' = [who |-> "ps", prevPnl |-> psPnl, price |-> price, status |-> r.status,
                     num |-> r.num, added |-> ok]
       /\ UNCHANGED <<psPnl, psLast>>

\* OvernightBiasStrategy.calculate_position_size(option_price, balance)
obs_size ==
  \E price \in ObsPrices, bal \in ObsBalances :
    \E r \in ObsCalcPositionSize(price, bal) :
       /\ szLast' = [who |-> "obs", prevPnl |-> psPnl, price |-> price, status |-> r.status,
                     num |-> r.num, added |-> FALSE]
       /\ UNCHANGED <<psPos, psCash3, psPnl, psLast>>

\* PositionSizing.update_position_pnl(id, cur): stores current_price and
\* total_pnl and returns the scaling recommendations
ps_update_position_pnl ==
  \E id \in 1..ps_max_positions, cur \in PsCurPrices :
    LET i == PsFind(psPos, id) IN
    IF i = 0
    THEN /\ psLast' = [op |-> "monitor", id |-> id, cur |-> cur, status |-> "position_not_found",
                       recs |-> <<>>, prev |-> [found |-> FALSE, scales |-> {}, entry |-> 0], pnl |-> 0]
         /\ UNCHANGED <<psPos, psCash3, psPnl, szLast>>
    ELSE LET p0 == psPos[i]
             p1 == [p0 EXCEPT !.cur = cur, !.pnl = (cur - p0.entry) * p0.num]
         IN \E recs \in PsScaleRecs(p1, cur) :
            /\ psPos' = [psPos EXCEPT ![i] = p1]
            /\ psLast' = [op |-> "monitor", id |-> id, cur |-> cur, status |-> "updated",
                          recs |-> recs,
                          prev |-> [found |-> TRUE, scales |-> p0.scales, entry |-> p0.entry],
                          pnl |-> p1.pnl]
            /\ UNCHANGED <<psCash3, psPnl, szLast>>

\* Mutant for C16: execute_scale does not look at scales_taken.
PsScaleTaken_mut(p, sc) == FALSE

\* execute_scale: scale_type in position['scales_taken']
PsScaleTaken(p, sc) == sc \in p.scales

\* PositionSizing.execute_scale(id, scale_type); a position never updated
\* has no 'current_price' and the call raises KeyError before any write
ps_execute_scale ==
  \E id \in 1..ps_max_positions, sc \in {"scale_1", "scale_2"} :
    LET i == PsFind(psPos, id)
        rec(st, q) == [op |-> "scale", id |-> id, cur |-> q.cur, status |-> st, recs |-> <<sc>>,
                       prev |-> [found |-> TRUE, scales |-> q.scales, entry |-> q.entry], pnl |-> 0]
    IN
    IF i = 0
    THEN /\ psLast' = [op |-> "scale", id |-> id, cur |-> 0, status |-> "position_not_found",
                       recs |-> <<sc>>, prev |-> [found |-> FALSE, scales |-> {}, entry |-> 0], pnl |-> 0]
         /\ UNCHANGED <<psPos, psCash3, psPnl, szLast>>
    ELSE IF PsScaleTaken(psPos[i], sc)
    THEN /\ psLast' = rec("scale_already_taken", psPos[i])
         /\ UNCHANGED <<psPos, psCash3, psPnl, szLast>>
    ELSE IF psPos[i].cur = NoneVal
    THEN /\ psLast' = rec("key_error", psPos[i])
         /\ UNCHANGED <<psPos, psCash3, psPnl, szLast>>
    ELSE LET a == PsExecuteScale(psPos[i], sc)
         IN /\ psPos' = [psPos EXCEPT ![i] = a.p]
            /\ psCash3' = psCash3 + a.cash3
            /\ psLast' = rec("executed", psPos[i])
            /\ UNCHANGED <<psPnl, szLast>>

\* PositionSizing.close_position(id, reason)
ps_close ==
  \E id \in 1..ps_max_positions :
    LET i == PsFind(psPos, id) IN
    IF i = 0
    THEN /\ psLast' = [op |-> "close", id |-> id, cur |-> 0, status |-> "position_not_found",
                       recs |-> <<>>, prev |-> [found |-> FALSE, scales |-> {}, entry |-> 0], pnl |-> 0]
         /\ UNCHANGED <<psPos, psCash3, psPnl, szLast>>
    ELSE LET p == psPos[i]
             final == IF p.pnl = NoneVal THEN 0 ELSE p.pnl
         IN /\ psPnl' = psPnl + final
            /\ psCash3' = psCash3 + 3 * (p.size + final)
            /\ psPos' = SelectSeq(psPos, LAMBDA q : q.id /= id)
            /\ psLast' = [op |-> "close", id |-> id, cur |-> 0, status |-> "closed",
                          recs |-> <<>>, prev |-> [found |-> TRUE, scales |-> p.scales, entry |-> p.entry],
                          pnl |-> final]
            /\ UNCHANGED szLast

\* PositionSizing.reset_daily_pnl
ps_reset_daily_pnl ==
  /\ psPnl' = 0
  /\ psLast' = [psLast EXCEPT !.op = "reset"]
  /\ UNCHANGED <<psPos, psCash3, szLast>>

NextPSOps ==
  /\ psOps < MaxPsOps
  /\ psOps' = psOps + 1
  /\ \/ ps_entry \/ obs_size \/ ps_update_position_pnl \/ ps_execute_scale
     \/ ps_close \/ ps_reset_daily_pnl


\* ---------------------------------------------------------------
\* HardInvalidation : trigger-range and VWAP invalidation counters
\* ---------------------------------------------------------------

\* tick instants, seconds after 10:00:00 ET (10:00:00, 10:00:25, 10:02:30,
\* 10:05:10, 10:05:25, 10:10:00, 10:10:10)
HiTimes == <<0, 25, 150, 310, 325, 600, 610>>
\* stock prices (cents) at the ticks, trigger levels, session VWAP values
HiPrices == {23990, 24050, 24170, 24250}
HiTH == 24193
HiTL == 24019
HiVwaps == {0, 24100}
\* add_position / reset_counters calls per run
MaxHiOps == 2

\* HardInvalidation.max_consecutive_closes / vwap_invalidation_closes
max_consecutive_closes == 2
vwap_invalidation_closes == 1

\* minute % 5 == 0 and second < 30
InCloseWindow(t) == t % 300 < 30
\* the 5-minute window a time falls in
Window(t) == t \div 300

\* HardInvalidation._is_five_minute_close at a tick during second t given the
\* second of last_close_time: the results it can give. Both instants carry
\* microseconds, so whole seconds 300 apart may be 299.x or 300.x s apart.
IsFiveMinuteClose(t, last) ==
  IF ~InCloseWindow(t) THEN {FALSE}
  ELSE IF last = NoneVal THEN {TRUE}
  ELSE IF t - last = 300 THEN {TRUE, FALSE}
  ELSE {t - last >= 300}

\* Mutant for C20: the trigger check does not reset the VWAP counter.
CheckTriggerInvalidation_mut(bias, p, th, tl, inside, across) ==
  IF (bias = "calls" /\ p <= th) \/ (bias = "puts" /\ p >= tl)
  THEN [inv |-> inside + 1 >= max_consecutive_closes, inside |-> inside + 1, across |-> across]
  ELSE IF bias \in {"calls", "puts"} THEN [inv |-> FALSE, inside |-> 0, across |-> across]
  ELSE [inv |-> FALSE, inside |-> inside, across |-> across]

\* HardInvalidation._check_trigger_invalidation: result and counters after
CheckTriggerInvalidation(bias, p, th, tl, inside, across) ==
  IF (bias = "calls" /\ p <= th) \/ (bias = "puts" /\ p >= tl)
  THEN [inv |-> inside + 1 >= max_consecutive_closes, inside |-> inside + 1, across |-> 0]
  ELSE IF bias \in {"calls", "puts"} THEN [inv |-> FALSE, inside |-> 0, across |-> across]
  ELSE [inv |-> FALSE, inside |-> inside, across |-> across]

\* HardInvalidation._check_vwap_invalidation: result and counters after
CheckVwapInvalidation(bias, p, vwap, inside, across) ==
  IF vwap = 0 THEN [inv |-> FALSE, inside |-> inside, across |-> across]
  ELSE IF (bias = "calls" /\ p < vwap) \/ (bias = "puts" /\ p > vwap)
  THEN [inv |-> across + 1 >= vwap_invalidation_closes, inside |-> 0, across |-> across + 1]
  ELSE IF bias \in {"calls", "puts"} THEN [inv |-> FALSE, inside |-> inside, across |-> 0]
  ELSE [inv |-> FALSE, inside |-> inside, across |-> across]

\* HardInvalidation._process_five_minute_close: status and counters
ProcessFiveMinuteCloseHI(bias, p, th, tl, vwap, inside, across) ==
  LET tr == CheckTriggerInvalidation(bias, p, th, tl, inside, across)
      vw == CheckVwapInvalidation(bias, p, vwap, tr.inside, tr.across)
  IN IF tr.inv THEN [status |-> "hard_invalidation", inside |-> tr.inside, across |-> tr.across]
     ELSE IF vw.inv THEN [status |-> "vwap_invalidation", inside |-> vw.inside, across |-> vw.across]
     ELSE [status |-> "valid", inside |-> vw.inside, across |-> vw.across]

\* HardInvalidation._check_real_time_invalidation
CheckRealTimeInvalidation(bias, p, th, tl) ==
  IF (bias = "calls" /\ p < tl) \/ (bias = "puts" /\ p > th) THEN "extreme_move" ELSE "valid"

\* StrategyOrchestrator / PositionSizing max_positions
hi_max_positions == 2

VARIABLES
  hiIdx,        \* index in HiTimes of the last tick (0 before the first)
  hiLastClose,  \* last_close_time (NoneVal when None)
  hiInside,     \* consecutive_closes_inside
  hiAcross,     \* consecutive_closes_across_vwap
  hiPos,        \* the caller's open position dicts passed to update: id, bias,
                \* plus history: the close window of the position's last tick
                \* inside a close window (win) and its run of consecutive
                \* completed 5-minute closes at or below the trigger while calls (run)
  hiActive,     \* HardInvalidation.active_positions (the stored ids)
  hiOps,        \* add_position / reset_counters calls (bound)
  hiLast        \* last update: position, instant, inputs, counted as close, status

hiVars == <<hiIdx, hiLastClose, hiInside, hiAcross, hiPos, hiActive, hiOps, hiLast>>

InitHI ==
  /\ hiIdx = 0
  /\ hiLastClose = NoneVal
  /\ hiInside = 0 /\ hiAcross = 0
  /\ hiPos = <<>>
  /\ hiActive = <<>>
  /\ hiOps = 0
  /\ hiLast = [op |-> "none", k |-> 0, t |-> 0, price |-> 0, vwap |-> 0, bias |-> "none",
               counted |-> FALSE, first |-> FALSE, status |-> "none",
               prevInside |-> 0, prevAcross |-> 0, run |-> 0]

\* HardInvalidation.update(position, price, trigger_levels, vwap_data) for
\* the caller's open position k; on action close_position the caller closes
\* it (stops monitoring it) and calls remove_position(its id), which drops
\* only stored entries with that id
hi_update ==
  /\ \E k \in 1..Len(hiPos), j \in (hiIdx + 1)..Len(HiTimes), p \in HiPrices, vwap \in HiVwaps :
       \* the loop runs every second: no 5-minute window passes without a tick
       /\ IF hiIdx = 0 THEN TRUE ELSE Window(HiTimes[j]) <= Window(HiTimes[hiIdx]) + 1
       /\ \E counted \in IsFiveMinuteClose(HiTimes[j], hiLastClose) :
          LET t == HiTimes[j]
              pos == hiPos[k]
              r == ProcessFiveMinuteCloseHI(pos.bias, p, HiTH, HiTL, vwap, hiInside, hiAcross)
              st == IF counted THEN r.status ELSE CheckRealTimeInvalidation(pos.bias, p, HiTH, HiTL)
              exit == st \in {"hard_invalidation", "vwap_invalidation", "extreme_move"}
              first == InCloseWindow(t) /\ Window(t) /= pos.win
              run == IF ~first THEN pos.run
                     ELSE IF pos.bias = "calls" /\ p <= HiTH THEN pos.run + 1 ELSE 0
              pos2 == [pos EXCEPT !.run = run, !.win = IF InCloseWindow(t) THEN Window(t) ELSE @]
          IN /\ hiIdx' = j
             /\ hiLastClose' = IF counted THEN t ELSE hiLastClose
             /\ hiInside' = IF counted THEN r.inside ELSE hiInside
             /\ hiAcross' = IF counted THEN r.across ELSE hiAcross
             /\ hiPos' = IF exit THEN SubSeq(hiPos, 1, k - 1) \o SubSeq(hiPos, k + 1, Len(hiPos))
                         ELSE [hiPos EXCEPT ![k] = pos2]
             /\ hiActive' = IF exit THEN SelectSeq(hiActive, LAMBDA x : x /= pos.id) ELSE hiActive
             /\ hiLast' = [op |-> "update", k |-> k, t |-> t, price |-> p, vwap |-> vwap,
                           bias |-> pos.bias, counted |-> counted, first |-> first, status |-> st,
                           prevInside |-> hiInside, prevAcross |-> hiAcross, run |-> run]
             /\ UNCHANGED hiOps

\* HardInvalidation.add_position(position_data) for a new position of the
\* caller (id hiOps + 1); the orchestrators' position_data carries no 'id',
\* so the stored id is position_data.get('id', 0) = 0
hi_add_position ==
  /\ Len(hiPos) < hi_max_positions /\ hiOps < MaxHiOps
  /\ \E b \in {"calls", "puts"} :
       /\ hiPos' = Append(hiPos, [id |-> hiOps + 1, bias |-> b, run |-> 0, win |-> -1])
       /\ hiActive' = Append(hiActive, 0)
       /\ hiInside' = 0 /\ hiAcross' = 0
       /\ hiOps' = hiOps + 1
       /\ hiLast' = [hiLast EXCEPT !.op = "add_position", !.bias = b]
       /\ UNCHANGED <<hiIdx, hiLastClose>>

\* HardInvalidation.reset_counters
hi_reset_counters ==
  /\ hiOps < MaxHiOps
  /\ hiInside' = 0 /\ hiAcross' = 0
  /\ hiPos' = [q \in 1..Len(hiPos) |-> [hiPos[q] EXCEPT !.run = 0]]
  /\ hiOps' = hiOps + 1
  /\ hiLast' = [hiLast EXCEPT !.op = "reset_counters"]
  /\ UNCHANGED <<hiIdx, hiLastClose, hiActive>>

NextHIOps == hi_update \/ hi_add_position \/ hi_reset_counters

\* ---------------------------------------------------------------
\* PositionSizing : entry cooldown over time
\* ---------------------------------------------------------------

\* PositionSizing.position_cooldown (seconds)
position_cooldown == 300
\* clock bound (seconds) and the clock steps between events
MaxCdTime == 900
CdSteps == {100, 400}

VARIABLES
  cdNow,        \* time.time() relative to the start (seconds)
  cdPos,        \* current_positions: sequence of [id, entry_time]
  cdPrevEntry,  \* time of the previous accepted entry (NoneVal before any)
  cdLast        \* last operation: kind, accepted, gap since the previous entry

cdVars == <<cdNow, cdPos, cdPrevEntry, cdLast>>

InitCD ==
  /\ cdNow = 0 /\ cdPos = <<>> /\ cdPrevEntry = NoneVal
  /\ cdLast = [op |-> "none", added |-> FALSE, gap |-> 0, prevEntry |-> NoneVal]

\* PositionSizing._can_enter_position at time now (daily P&L at 0): fewer
\* than max_positions, and now - current_positions[-1].entry_time >= cooldown
\* when a position is open
CdCanEnter(pos, now) ==
  /\ Len(pos) < ps_max_positions
  /\ (Len(pos) > 0 => now - pos[Len(pos)].t >= position_cooldown)

\* add_position at the current time
cd_add_position ==
  LET ok == CdCanEnter(cdPos, cdNow) IN
  /\ cdPos' = IF ok THEN Append(cdPos, [id |-> Len(cdPos) + 1, t |-> cdNow]) ELSE cdPos
  /\ cdPrevEntry' = IF ok THEN cdNow ELSE cdPrevEntry
  /\ cdLast' = [op |-> "add", added |-> ok,
                gap |-> IF cdPrevEntry = NoneVal THEN 0 ELSE cdNow - cdPrevEntry,
                prevEntry |-> cdPrevEntry]
  /\ UNCHANGED cdNow

\* close_position(id): position_not_found unless _get_position finds the id;
\* then every position with that id is removed
cd_close_position ==
  \E id \in 1..ps_max_positions :
    /\ \E i \in 1..Len(cdPos) : cdPos[i].id = id
    /\ cdPos' = SelectSeq(cdPos, LAMBDA q : q.id /= id)
    /\ cdLast' = [op |-> "close", added |-> FALSE, gap |-> 0, prevEntry |-> cdPrevEntry]
    /\ UNCHANGED <<cdNow, cdPrevEntry>>

\* wall-clock time passes between events
cd_clock ==
  \E d \in CdSteps :
    /\ cdNow + d <= MaxCdTime
    /\ cdNow' = cdNow + d
    /\ cdLast' = [cdLast EXCEPT !.op = "clock", !.added = FALSE]
    /\ UNCHANGED <<cdPos, cdPrevEntry>>

NextCDOps == cd_add_position \/ cd_close_position \/ cd_clock

\* ---------------------------------------------------------------
\* MultiStrategyOrchestrator : WebSocket handler and strategy loop
\* ---------------------------------------------------------------

\* WebSocket ticks and loop iterations per run
MaxMsTicks == 7
MaxMsIters == 6

VARIABLES
  msBias,        \* current_bias ("none" for None)
  msWsPc,        \* WebSocket thread inside _handle_stock_data: "idle", "vwap"
                 \* (session_vwap updated), "entry" (in _execute_vwap_entry,
                 \* past the REST call)
  msTicks,       \* WebSocket ticks handled
  msIters,       \* strategy loop iterations
  msPos,         \* len(active_positions)
  msFcWriters,   \* paths that have written FiveMinuteConfirmation state
  msPosWriters,  \* paths that have written active_positions
  msVwapN        \* ticks accumulated by session_vwap

msVars == <<msBias, msWsPc, msTicks, msIters, msPos, msFcWriters, msPosWriters, msVwapN>>

InitMS ==
  /\ msBias = "none" /\ msWsPc = "idle" /\ msTicks = 0 /\ msIters = 0 /\ msPos = 0
  /\ msFcWriters = {} /\ msPosWriters = {} /\ msVwapN = 0

\* Mutant for C26: the bias guard always passes.
MsBiasSet_mut(b) == TRUE

\* `if self.current_bias:` / `if not self.current_bias: return`
MsBiasSet(b) == b /= "none"

\* the WebSocket thread's next step in _handle_stock_data:
\* "idle": a tick arrives and session_vwap.update(data) runs;
\* "vwap": five_min_confirmation.update when current_bias is set; on
\*   entry_signal the thread enters _execute_vwap_entry and blocks in
\*   polygon_rest.get_options_chain;
\* "entry": the REST call has returned: contract selection and
\*   position_sizing.calculate_position_size (no _can_enter_new_position
\*   check on this path); when approved, hard_invalidation.add_position and
\*   active_positions[len + 1] = position_data
ms_ws_step ==
  \/ /\ msWsPc = "idle" /\ msTicks < MaxMsTicks
     /\ msWsPc' = "vwap"
     /\ msTicks' = msTicks + 1
     /\ msVwapN' = msVwapN + 1
     /\ UNCHANGED <<msBias, msIters, msPos, msFcWriters, msPosWriters>>
  \/ /\ msWsPc = "vwap"
     /\ IF MsBiasSet(msBias)
        THEN \E signal \in BOOLEAN :
               /\ msFcWriters' = msFcWriters \cup {"ws"}
               /\ msWsPc' = IF signal THEN "entry" ELSE "idle"
        ELSE /\ msWsPc' = "idle"
             /\ UNCHANGED msFcWriters
     /\ UNCHANGED <<msBias, msTicks, msIters, msPos, msPosWriters, msVwapN>>
  \/ /\ msWsPc = "entry"
     /\ msWsPc' = "idle"
     /\ \E approved \in BOOLEAN :
          /\ msPos' = IF approved THEN msPos + 1 ELSE msPos
          /\ msPosWriters' = IF approved THEN msPosWriters \cup {"ws"} ELSE msPosWriters
     /\ UNCHANGED <<msBias, msTicks, msIters, msFcWriters, msVwapN>>

\* one _run_strategy_loop iteration in market hours: _process_strategies
\* (per-symbol overnight-bias entries raise KeyError on
\* position_size['position_size'] before writing active_positions; the
\* per-symbol VWAP step only logs), then _monitor_positions (a position
\* dict lacks 'current_price' / 'entry_time', so the pass raises KeyError
\* before any close)
ms_loop_iteration ==
  /\ msIters < MaxMsIters
  /\ msIters' = msIters + 1
  /\ UNCHANGED <<msBias, msWsPc, msTicks, msPos, msFcWriters, msPosWriters, msVwapN>>

NextMSOps == ms_ws_step \/ ms_loop_iteration

\* ---------------------------------------------------------------
\* SessionVWAP : cumulative price * volume
\* ---------------------------------------------------------------

\* tick prices (cents) and volumes
SvPrices == {0, 24100, 24250}
SvVolumes == {0, 1, 3}
\* operations per run
MaxSvOps == 5

VARIABLES
  svActive,  \* session_active
  svVol,     \* session_volume
  svPv,      \* session_pv (cents * shares)
  svVwap,    \* current_vwap as the quotient num / den
  svOps,     \* operations so far
  svLast     \* last operation and the accumulators before it

svVars == <<svActive, svVol, svPv, svVwap, svOps, svLast>>

InitSV ==
  /\ svActive = FALSE /\ svVol = 0 /\ svPv = 0 /\ svVwap = [num |-> 0, den |-> 1]
  /\ svOps = 0
  /\ svLast = [op |-> "none", prevActive |-> FALSE, prevVol |-> 0, prevPv |-> 0,
               prevVwap |-> [num |-> 0, den |-> 1], volume |-> 0]

\* Mutant for C27: ticks are accumulated whatever the session state.
SvAccepts_mut(active) == TRUE

\* `if not self.session_active: return {'status': 'inactive'}`
SvAccepts(active) == active

SvRecord(op, v) ==
  svLast' = [op |-> op, prevActive |-> svActive, prevVol |-> svVol, prevPv |-> svPv,
             prevVwap |-> svVwap, volume |-> v]

\* SessionVWAP.start_session
sv_start_session ==
  /\ svActive' = TRUE
  /\ svVol' = 0 /\ svPv' = 0 /\ svVwap' = [num |-> 0, den |-> 1]
  /\ SvRecord("start", 0)

\* SessionVWAP.update(tick_data)
sv_update ==
  \E price \in SvPrices, volume \in SvVolumes :
    /\ IF SvAccepts(svActive)
       THEN LET vol == svVol + volume
                pv == svPv + price * volume
            IN /\ svVol' = vol
               /\ svPv' = pv
               \* if session_volume > 0: current_vwap = session_pv / session_volume
               /\ svVwap' = IF vol > 0 THEN [num |-> pv, den |-> vol] ELSE svVwap
       ELSE UNCHANGED <<svVol, svPv, svVwap>>
    /\ SvRecord("update", volume)
    /\ UNCHANGED svActive

\* SessionVWAP.end_session
sv_end_session ==
  /\ svActive' = FALSE
  /\ SvRecord("end", 0)
  /\ UNCHANGED <<svVol, svPv, svVwap>>

NextSVOps ==
  /\ svOps < MaxSvOps
  /\ svOps' = svOps + 1
  /\ (sv_start_session \/ sv_update \/ sv_end_session)

\* ---------------------------------------------------------------
\* FiveMinuteConfirmation : candles over clock time
\* ---------------------------------------------------------------

\* FiveMinuteConfirmation._is_in_entry_window: '09:45' <= HH:MM <= '11:00'
\* or '13:30' <= HH:MM <= '14:15'
InEntryWindow(t) ==
  LET hm == Hour(t) * 100 + Minute(t) IN
  (945 <= hm /\ hm <= 1100) \/ (1330 <= hm /\ hm <= 1415)

\* tick instants (seconds of the ET day, all inside the 09:45-11:00 window):
\* 10:00:05, 10:00:15, 10:00:25, 10:02:00, 10:05:05, 10:05:20
FwTimes == <<36005, 36015, 36025, 36120, 36305, 36320>>
\* tick prices (cents): below triggerHigh, above it
FwPrices == {24000, 24250}
\* bias and trigger levels handed to update
FwBias == "calls"
FwTH == 24193
FwTL == 24019

\* the 5-minute boundary an instant belongs to
FwBoundary(t) == t - (t % 300)

NoCandle == [has |-> FALSE, open |-> 0, high |-> 0, low |-> 0, close |-> 0, from |-> 0]

VARIABLES
  fwIdx,       \* index of the last tick instant in FwTimes (0 before any)
  fwCandle,    \* current_candle (with the instant of its first tick)
  fwPending,   \* confirmation_pending
  fwConfTrig,  \* confirmation_trigger
  fwRetest,    \* retest_count
  fwCandles,   \* five_min_candles: sequence of [boundary, from]
  fwBreaks,    \* boundaries of the trigger_break results, in order
  fwLast       \* last update: instant and returned status

fwVars == <<fwIdx, fwCandle, fwPending, fwConfTrig, fwRetest, fwCandles, fwBreaks, fwLast>>

InitFW ==
  /\ fwIdx = 0 /\ fwCandle = NoCandle /\ fwPending = FALSE /\ fwConfTrig = NoneVal
  /\ fwRetest = 0 /\ fwCandles = <<>> /\ fwBreaks = <<>>
  /\ fwLast = [t |-> 0, status |-> "none"]

\* _update_current_candle
FwUpdateCandle(c, p, t) ==
  IF ~c.has THEN [has |-> TRUE, open |-> p, high |-> p, low |-> p, close |-> p, from |-> t]
  ELSE [c EXCEPT !.high = IF p > @ THEN p ELSE @, !.low = IF p < @ THEN p ELSE @, !.close = p]

\* FiveMinuteConfirmation.update(tick, "calls", (FwTH, FwTL)) at a later instant
fw_update ==
  \E j \in (fwIdx + 1)..Len(FwTimes), p \in FwPrices :
  \E inBand \in InRetestBand(p, fwConfTrig) :
    LET t == FwTimes[j]
        c == FwUpdateCandle(fwCandle, p, t)
        brk == CheckTriggerBreak(c.close, FwBias, FwTH, FwTL)
        conf == fwPending /\ CheckConfirmation(c.close, FwBias, fwConfTrig)
    IN
    /\ fwIdx' = j
    /\ IF ~InEntryWindow(t)
       THEN /\ fwLast' = [t |-> t, status |-> "outside_window"]
            /\ UNCHANGED <<fwCandle, fwPending, fwConfTrig, fwRetest, fwCandles, fwBreaks>>
       \* _is_five_minute_close: minute % 5 == 0 and second < 30
       ELSE IF InCloseWindow(t)
       THEN /\ fwCandles' = Append(fwCandles, [boundary |-> FwBoundary(t), from |-> c.from])
            /\ IF brk.broken
               THEN /\ fwPending' = TRUE /\ fwConfTrig' = brk.level
                    /\ fwBreaks' = Append(fwBreaks, FwBoundary(t))
                    /\ fwCandle' = c
                    /\ fwLast' = [t |-> t, status |-> "trigger_break"]
                    /\ UNCHANGED fwRetest
               ELSE IF conf
               THEN /\ fwPending' = FALSE /\ fwConfTrig' = NoneVal /\ fwRetest' = 0
                    /\ fwCandle' = c
                    /\ fwLast' = [t |-> t, status |-> "confirmed"]
                    /\ UNCHANGED fwBreaks
               ELSE /\ fwCandle' = NoCandle
                    /\ fwLast' = [t |-> t, status |-> "no_trigger"]
                    /\ UNCHANGED <<fwPending, fwConfTrig, fwRetest, fwBreaks>>
       \* _check_retest_opportunity when confirmation is pending
       ELSE /\ fwCandle' = c
            /\ UNCHANGED <<fwCandles, fwBreaks>>
            /\ IF fwPending /\ RetestCapReached(fwRetest)
               THEN /\ fwPending' = FALSE /\ fwConfTrig' = NoneVal /\ fwRetest' = 0
                    /\ fwLast' = [t |-> t, status |-> "max_retests"]
               ELSE IF fwPending /\ fwConfTrig /= NoneVal /\ inBand
               THEN /\ fwRetest' = fwRetest + 1
                    /\ fwLast' = [t |-> t, status |-> "retest_opportunity"]
                    /\ UNCHANGED <<fwPending, fwConfTrig>>
               ELSE /\ fwLast' = [t |-> t, status |-> IF fwPending THEN "waiting_retest" ELSE "waiting"]
                    /\ UNCHANGED <<fwPending, fwConfTrig, fwRetest>>

\* FiveMinuteConfirmation.reset_confirmation() between two ticks
fw_reset_confirmation ==
  /\ fwPending' = FALSE
  /\ fwConfTrig' = NoneVal
  /\ fwRetest' = 0
  /\ fwLast' = [t |-> fwLast.t, status |-> "reset"]
  /\ UNCHANGED <<fwIdx, fwCandle, fwCandles, fwBreaks>>

\* ---------------------------------------------------------------
\* Specifications
\* ---------------------------------------------------------------

posVars == <<psVars, hiVars, cdVars, msVars, svVars, fwVars>>
vars == <<obVars, oaVars, seVars, orVars, fcVars, obfVars, posVars>>
Init == InitOB /\ InitOA /\ InitSE /\ InitOrch /\ InitFC /\ InitOBF /\ InitPS /\ InitHI /\ InitCD /\ InitMS /\ InitSV /\ InitFW


\* The bias engine on its own.
NextSE == (get_daily_bias \/ se_clock) /\ UNCHANGED <<obVars, oaVars, orVars, fcVars, obfVars, posVars>>
SpecSE == Init /\ [][NextSE]_vars

\* OvernightBarAnalysis fed overnight bars alongside the bias engine.
MaxTrigBars == 3
OABar ==
  /\ oaBars < MaxTrigBars
  /\ \E bar \in Bars, gate \in BOOLEAN : oa_update_overnight_bar(bar, gate)
  /\ UNCHANGED <<obVars, seVars, orVars, fcVars, obfVars, posVars>>
NextTrig == OABar \/ NextSE
SpecTrig == Init /\ [][NextTrig]_vars

\* The two overnight classifiers, each fed its own bars.
SpecOvernight == Init /\ [][NextOvernight /\ UNCHANGED <<seVars, orVars, fcVars, obfVars, posVars>>]_vars

\* The orchestrator driving its OvernightBiasStrategy instance.
NextOrch == (start_strategy \/ run_strategy_loop) /\ UNCHANGED <<oaVars, seVars, fcVars, posVars>>
SpecOrch == Init /\ [][NextOrch]_vars

\* FiveMinuteConfirmation on its own.
NextFC == (fc_update \/ fc_reset_confirmation) /\ UNCHANGED <<obVars, oaVars, seVars, orVars, obfVars, posVars>>
SpecFC == Init /\ [][NextFC]_vars

\* OvernightBiasStrategy: the 03:00 bars of the morning, then intraday ticks.
MaxFiveBars == 2
five_overnight_bar ==
  /\ obfTicks = 0 /\ obBars < MaxFiveBars
  /\ \E bar \in Bars : update_overnight_bar(bar, TRUE)
  /\ UNCHANGED <<oaVars, seVars, orVars, fcVars, obfVars, posVars>>
five_tick ==
  /\ update_five_minute_data
  /\ UNCHANGED <<obVars, oaVars, seVars, orVars, fcVars, posVars>>
NextFive == five_overnight_bar \/ five_tick
SpecFive == Init /\ [][NextFive]_vars

\* Position sizing, positions and their monitoring.
NextPS == NextPSOps /\ UNCHANGED <<obVars, oaVars, seVars, orVars, fcVars, obfVars, hiVars, cdVars, msVars, svVars, fwVars>>
SpecPS == Init /\ [][NextPS]_vars

\* The hard-invalidation monitor of the tracked position.
NextHI == NextHIOps /\ UNCHANGED <<obVars, oaVars, seVars, orVars, fcVars, obfVars, psVars, cdVars, msVars, svVars, fwVars>>
SpecHI == Init /\ [][NextHI]_vars

\* PositionSizing entries and closes as time passes.
NextCD == NextCDOps /\ UNCHANGED <<obVars, oaVars, seVars, orVars, fcVars, obfVars, psVars, hiVars, msVars, svVars, fwVars>>
SpecCD == Init /\ [][NextCD]_vars

\* The WebSocket handler thread interleaved with the strategy loop thread.
NextMS == NextMSOps /\ UNCHANGED <<obVars, oaVars, seVars, orVars, fcVars, obfVars, psVars, hiVars, cdVars, svVars, fwVars>>
SpecMS == Init /\ [][NextMS]_vars

\* SessionVWAP sessions and ticks.
NextSV == NextSVOps /\ UNCHANGED <<obVars, oaVars, seVars, orVars, fcVars, obfVars, psVars, hiVars, cdVars, msVars, fwVars>>
SpecSV == Init /\ [][NextSV]_vars

\* FiveMinuteConfirmation fed ticks at clock instants.
NextFW == (fw_update \/ fw_reset_confirmation) /\ UNCHANGED <<obVars, oaVars, seVars, orVars, fcVars, obfVars, psVars, hiVars, cdVars, msVars, svVars>>
SpecFW == Init /\ [][NextFW]_vars

\* All components (each specification above restricts it to one part).
Next ==
  \/ NextOvernight /\ UNCHANGED <<seVars, orVars, fcVars, obfVars, posVars>>
  \/ NextTrig
  \/ NextOrch
  \/ NextFC
  \/ NextFive
  \/ NextPS
  \/ NextHI
  \/ NextCD
  \/ NextMS
  \/ NextSV
  \/ NextFW
Spec == Init /\ [][Next]_vars

\* confidence r lies in (0.7, 1.0]
InOpenConfRange(r) == 10 * r.num > 7 * r.den /\ r.num <= r.den

\* C1: a bar closing above the previous high yields calls with confidence
\* in (0.7, 1.0], one closing below the previous low yields puts with
\* confidence in (0.7, 1.0], outside bars included, in both classifiers.
C1_Claim ==
  /\ (obLast.status = "complete" /\ obLast.n >= 2 /\ obLast.bar.c > obLast.prev.h)
       => (obLast.bias = "calls" /\ InOpenConfRange(obLast.conf))
  /\ (obLast.status = "complete" /\ obLast.n >= 2 /\ obLast.bar.c < obLast.prev.l)
       => (obLast.bias = "puts" /\ InOpenConfRange(obLast.conf))
  /\ (oaLast.status = "complete" /\ oaLast.prev /= NoBar /\ oaLast.bar.c > oaLast.prev.h)
       => (oaLast.bias = "calls" /\ InOpenConfRange(oaLast.conf))
  /\ (oaLast.status = "complete" /\ oaLast.prev /= NoBar /\ oaLast.bar.c < oaLast.prev.l)
       => (oaLast.bias = "puts" /\ InOpenConfRange(oaLast.conf))

\* C2: after update_overnight_bar processes a bar inside the previous bar,
\* the stored bias is none and its confidence 0, whatever came before.
C2_Claim ==
  (obLast.status = "complete" /\ obLast.n >= 2
     /\ obLast.bar.h <= obLast.prev.h /\ obLast.bar.l >= obLast.prev.l)
    => (obBias = "none" /\ obConf = Zero)

ScenarioPrev(b) == b.h = 24080 /\ b.l = 23950
ScenarioBar == [h |-> 24193, l |-> 24019, c |-> 24120]

\* C5 (as stated): prev {240.80, 239.50}, bar {241.93, 240.19, 241.20}
\* gives calls, confidence about 0.78 (within 0.005), triggerHigh in
\* {241.93, 240.80} and triggerLow in {239.50, 240.19}.
C5_Claim ==
  /\ (obLast.status = "complete" /\ obLast.n = 2 /\ ScenarioPrev(obLast.prev)
        /\ obLast.bar = ScenarioBar)
       => /\ obLast.bias = "calls"
          /\ 1000 * obLast.conf.num <= 785 * obLast.conf.den
          /\ 1000 * obLast.conf.num >= 775 * obLast.conf.den
          /\ obLast.high \in {24193, 24080} /\ obLast.low \in {23950, 24019}
  /\ (oaLast.status = "complete" /\ oaBars = 2 /\ ScenarioPrev(oaLast.prev)
        /\ oaLast.bar = ScenarioBar)
       => /\ oaLast.bias = "calls"
          /\ 1000 * oaLast.conf.num <= 785 * oaLast.conf.den
          /\ 1000 * oaLast.conf.num >= 775 * oaLast.conf.den
          /\ oaLast.trigH \in {24193, 24080} /\ oaLast.trigL \in {23950, 24019}

\* C5 (amended): in that scenario OvernightBiasStrategy yields calls with
\* confidence exactly 0.7 + 10 * 0.40 / 240.80 = 2157/3010 (about 0.717) and
\* overnight high/low 241.93/240.19; OvernightBarAnalysis yields calls with
\* triggers 241.93/240.19 (its confidence is the subject of C1).
C5_Amended ==
  /\ (obLast.status = "complete" /\ obLast.n = 2 /\ ScenarioPrev(obLast.prev)
        /\ obLast.bar = ScenarioBar)
       => /\ obLast.bias = "calls"
          /\ obLast.conf.num * 3010 = 2157 * obLast.conf.den
          /\ obLast.high = 24193 /\ obLast.low = 24019
  /\ (oaLast.status = "complete" /\ oaBars = 2 /\ ScenarioPrev(oaLast.prev)
        /\ oaLast.bar = ScenarioBar)
       => /\ oaLast.bias = "calls"
          /\ oaLast.trigH = 24193 /\ oaLast.trigL = 24019

C5_Witness ==
  /\ obLast.status = "complete" /\ obLast.n = 2 /\ ScenarioPrev(obLast.prev)
  /\ obLast.bar = ScenarioBar
  /\ oaLast.status = "complete" /\ oaBars = 2 /\ ScenarioPrev(oaLast.prev)
  /\ oaLast.bar = ScenarioBar

\* C3: an outside bar whose close stays within the previous range yields
\* bias none in every classifier, including StratBiasEngine's '3' class.
C3_Claim ==
  /\ (obLast.status = "complete" /\ obLast.n >= 2
        /\ obLast.bar.h > obLast.prev.h /\ obLast.bar.l < obLast.prev.l
        /\ obLast.bar.c >= obLast.prev.l /\ obLast.bar.c <= obLast.prev.h)
       => obLast.cbias = "none"
  /\ (oaLast.status = "complete" /\ oaLast.prev /= NoBar
        /\ oaLast.bar.h > oaLast.prev.h /\ oaLast.bar.l < oaLast.prev.l
        /\ oaLast.bar.c >= oaLast.prev.l /\ oaLast.bar.c <= oaLast.prev.h)
       => oaLast.bias = "none"
  /\ (seLast.path = "determined" /\ seLast.cls = "3") => seLast.bias = "None"

\* C4: whenever a bias is not none, triggerHigh >= triggerLow, for the
\* OvernightBarAnalysis result and for StratBiasEngine's stored and
\* returned levels.
C4_TriggerOrder ==
  /\ (oaLast.status = "complete" /\ oaLast.bias /= "none") => oaLast.trigH >= oaLast.trigL
  /\ (oaLast.status = "complete" /\ oaLast.bias /= "none") => oaTrigH >= oaTrigL
  /\ (seBias \notin {"null", "None"}) => seTH >= seTL
  /\ (seLast.called /\ seLast.bias /= "None") => seLast.th >= seLast.tl

C4_Witness ==
  /\ oaLast.status = "complete" /\ oaLast.bias /= "none"
  /\ seLast.path = "determined" /\ seLast.bias /= "None"

\* C6: each trading day the orchestrator runs, the strategy processes exactly
\* one overnight bar (never two, and at least one).
C6_Claim ==
  /\ orDayBars <= 1
  /\ (orDay >= 2 /\ orPrevFull) => orPrevDayBars = 1

\* C7: on a new day the previous day's bias and levels are reset and the
\* processed-today flag is cleared.
C7_Claim ==
  /\ orFlag => orFlagDay = orDay
  /\ (obBias /= "none" \/ obHigh /= NoneVal) => orBarDay = orDay

\* the close c is beyond level x in the bias direction
Beyond(bias, c, x) == IF bias = "calls" THEN c > x ELSE c < x

\* C9: after a break put the machine in pending_confirmation, the next
\* completed candle closing beyond the trigger and on the bias side of
\* VWAP and EMA20 yields confirmed with an entry signal; an entry is only
\* emitted from pending_confirmation.
C9_Claim ==
  /\ (fcLast.kind = "close" /\ fcLast.prevPending /\ fcLast.midBefore
        /\ fcLast.bias = fcLast.prevConfBias
        /\ Beyond(fcLast.bias, fcLast.price, fcLast.prevConfTrig)
        /\ Beyond(fcLast.bias, fcLast.price, fcLast.vwap)
        /\ Beyond(fcLast.bias, fcLast.price, fcLast.ema))
       => (fcLast.status = "confirmed" /\ fcLast.entry)
  /\ fcLast.entry => fcLast.prevPending

\* C10: at most one confirmed / entry signal per pending_confirmation
\* (bias-break) episode, several ticks of one 5-minute close window included.
C10_Claim ==
  /\ fcEpConfirms <= 1
  /\ obfWinEntries <= 1

\* C8: a failed fetch gives bias None and no trigger levels (0), never
\* levels left from an earlier determination.
C8_Claim ==
  seLast.path = "failed" => (seLast.bias = "None" /\ seLast.th = 0 /\ seLast.tl = 0)

\* C11: a tick outside the entry windows leaves the confirmation machine
\* idle: no entry signal and no pending confirmation afterwards, so a break
\* from one window does not carry into a later one.
C11_Claim ==
  /\ fcLast.kind = "outside" => (~fcLast.entry /\ ~fcPending)
  /\ obfLast = "outside_window" => obfWinEntries = 0


\* C12: retest_count never exceeds max_retests; when the cap is hit the
\* machine goes back to watching (not pending, count 0, trigger cleared),
\* and an episode whose retest count reached the cap is never confirmed
\* (a confirmation always comes from an episode below the cap).
C12_Claim ==
  /\ fcRetest <= max_retests
  /\ fcLast.status = "max_retests"
       => (~fcPending /\ fcRetest = 0 /\ fcConfTrig = NoneVal /\ ~fcLast.entry)
  /\ fcLast.status = "confirmed" => fcLast.prevRetest < max_retests


\* C13: no sizer returns approved with fewer than one contract
\* (OvernightBiasStrategy after its risk cap, and PositionSizing).
C13_Claim ==
  szLast.status = "approved" => szLast.num >= 1

\* C14: balance $7,000 and option price $2.50 give approved with 84
\* contracts (min(933, floor(7000 * 0.03 / 2.50))).
C14_Claim ==
  (szLast.who = "obs" /\ szLast.price = 250) => (szLast.status = "approved" /\ szLast.num = 84)

\* C15: once realized daily P&L has reached the daily-loss limit, every
\* later sizing request until the daily reset is rejected.
C15_Claim ==
  /\ szLast.prevPnl <= -ps_max_daily_loss => szLast.status /= "approved"
  /\ szLast.prevPnl <= -ps_max_daily_loss => ~szLast.added

\* C16: on one open position the first and the second scale-out each fire
\* at most once: PositionSizing.execute_scale executes each scale of a
\* position at most once (the orchestrator's OvernightBiasStrategy
\* monitoring path never reaches a scale-out).
C16_Claim ==
  \A i \in 1..Len(psPos) : psPos[i].n1 <= 1 /\ psPos[i].n2 <= 1

\* a position whose first scale was executed is asked for it again
C16_Witness ==
  /\ psLast.op = "scale" /\ psLast.status = "scale_already_taken"
  /\ psLast.recs = <<"scale_1">>
  /\ \E i \in 1..Len(psPos) : psPos[i].id = psLast.id /\ psPos[i].n1 = 1

\* C17: at pnl >= 30% with no first scale taken a first scale-out is
\* triggered, at >= 70% with no second scale taken a second one; below
\* 30% none.
C17_Claim ==
  psLast.op = "monitor" /\ psLast.prev.found =>
    LET e == psLast.prev.entry
        up == 100 * (psLast.cur - e)
    IN /\ (up >= 30 * e /\ "scale_1" \notin psLast.prev.scales)
            => \E k \in 1..Len(psLast.recs) : psLast.recs[k] = "scale_1"
       /\ (up >= 70 * e /\ "scale_2" \notin psLast.prev.scales)
            => \E k \in 1..Len(psLast.recs) : psLast.recs[k] = "scale_2"
       /\ up < 30 * e => psLast.recs = <<>>

\* C18: for an open calls position, two consecutive completed 5-minute
\* closes at or below triggerHigh exit with reason "two consecutive closes
\* back inside trigger"; a trigger-range exit needs two such closes.
C18_Claim ==
  /\ (hiLast.op = "update" /\ hiLast.first /\ hiLast.bias = "calls" /\ hiLast.run >= 2)
       => hiLast.status = "hard_invalidation"
  /\ (hiLast.op = "update" /\ hiLast.bias = "calls" /\ hiLast.status = "hard_invalidation")
       => hiLast.run >= 2

\* C19: with session VWAP > 0, one completed 5-minute close on the wrong
\* side of VWAP (below for calls, above for puts) exits at once with reason
\* "close across VWAP", also when that close is inside the trigger range.
C19_Claim ==
  (hiLast.op = "update" /\ hiLast.first /\ hiLast.vwap > 0
     /\ ((hiLast.bias = "calls" /\ hiLast.price < hiLast.vwap)
         \/ (hiLast.bias = "puts" /\ hiLast.price > hiLast.vwap)))
    => hiLast.status = "vwap_invalidation"

\* C20: at most one of consecutive_closes_inside and
\* consecutive_closes_across_vwap is non-zero.
C20_Counters ==
  hiInside = 0 \/ hiAcross = 0

\* a close moved the count from one counter to the other
C20_Witness ==
  /\ hiLast.op = "update" /\ hiLast.counted
  /\ hiLast.prevAcross > 0 /\ hiInside > 0

\* C21: on every tick of an open position, 5-minute closes included, a
\* price beyond the opposite trigger (calls below triggerLow, puts above
\* triggerHigh) yields an exit for that tick.
C21_Claim ==
  (hiLast.op = "update"
     /\ ((hiLast.bias = "calls" /\ hiLast.price < HiTL)
         \/ (hiLast.bias = "puts" /\ hiLast.price > HiTH)))
    => hiLast.status \in {"hard_invalidation", "vwap_invalidation", "extreme_move"}

\* C24: at most one position is open per instance; entry is refused while a
\* position is open.
C24_Claim ==
  Len(psPos) <= 1

\* C25: two successive accepted entries are at least the 300 s cooldown
\* apart, also when the earlier position has been closed in between.
C25_Claim ==
  (cdLast.op = "add" /\ cdLast.added /\ cdLast.prevEntry /= NoneVal)
    => cdLast.gap >= position_cooldown

\* C26: with the WebSocket handler and the strategy loop interleaved,
\* confirmation state and positions are each written by at most one path,
\* and the positions never exceed the can-enter limit of 2.
C26_Claim ==
  /\ Cardinality(msFcWriters) <= 1
  /\ Cardinality(msPosWriters) <= 1
  /\ msPos <= 2

\* both threads have run: a tick is being handled between loop iterations
C26_Witness ==
  msIters >= 1 /\ msTicks >= 2 /\ msWsPc = "vwap" /\ msIters < MaxMsIters

\* C27: within a session the cumulative volume and price * volume never
\* decrease for non-negative volumes, current VWAP is their quotient while
\* the volume is positive, start_session resets all three to 0, and ticks
\* while the session is inactive change nothing.
C27_Claim ==
  /\ (svLast.op = "update" /\ svLast.prevActive) => (svVol >= svLast.prevVol /\ svPv >= svLast.prevPv)
  /\ svVol > 0 => svVwap.num * svVol = svPv * svVwap.den
  /\ svLast.op = "start" => (svVol = 0 /\ svPv = 0 /\ svVwap.num = 0)
  /\ (svLast.op = "update" /\ ~svLast.prevActive)
       => (svVol = svLast.prevVol /\ svPv = svLast.prevPv /\ svVwap = svLast.prevVwap)

\* a positive-volume tick accumulated on top of earlier volume in a session
C27_Witness ==
  svLast.op = "update" /\ svLast.prevActive /\ svLast.prevVol > 0 /\ svVol > svLast.prevVol
    /\ svVwap /= svLast.prevVwap

\* C28: the available-cash pool is conserved: with no position open,
\* available_cash = initial available cash + realized P&L (daily_pnl).
C28_Claim ==
  Len(psPos) = 0 => psCash3 = (3 * ps_account_size * 100 - ps_entry_size3) + 3 * psPnl

\* C29: the ids of simultaneously open positions are distinct.
C29_Claim ==
  \A i, j \in 1..Len(psPos) : i /= j => psPos[i].id /= psPos[j].id

\* C30: each 5-minute boundary yields at most one completed candle and at
\* most one trigger_break, and the open candle only covers ticks since the
\* last processed boundary.
C30_Claim ==
  /\ \A i, j \in 1..Len(fwCandles) : i < j => fwCandles[i].boundary /= fwCandles[j].boundary
  /\ \A i, j \in 1..Len(fwBreaks) : i < j => fwBreaks[i] /= fwBreaks[j]
  /\ \A i \in 1..Len(fwCandles) :
       fwCandle.has => fwCandle.from > fwCandles[i].boundary

====
